---- MODULE Spec2Model ----
(***************************************************************************)
(* Model of plugin/volume.go: the Docker volume driver that orchestrates a *)
(* remote disk provider (Create/List/Attach/Detach/Delete) and the local   *)
(* filesystem (Stat/MkdirAll/Format/Mount/Unmount).                        *)
(*                                                                         *)
(* Every handler is a sequence of steps; each step is one call to an       *)
(* external collaborator followed by the handler's local code up to the    *)
(* next call.  A worker (goroutine of the transport) runs one handler at a *)
(* time.  Spec dispatches requests one at a time; the collaborators and    *)
(* the providers.DiskConfig methods are not part of volume.go and are      *)
(* modelled from their documented contracts.                               *)
(***************************************************************************)
EXTENDS Integers, Sequences, FiniteSets, TLC

VARIABLES
    disks,      \* provider: the disks in the order provider.List reports them
    attached,   \* provider: names of the disks attached to this instance
    fsKind,     \* filesystem: what Stat finds at each path
    mounted,    \* filesystem: device mounted at each path ("" = none)
    pc,         \* worker: position inside the running handler
    op,         \* worker: the handler being run
    req,        \* worker: the volume.Request
    cfg,        \* worker: result of createDiskConfig, NoCfg if not called
    calls,      \* worker: external calls issued by the handler so far
    resp        \* worker: the volume.Response returned

vars == <<disks, attached, fsKind, mounted, pc, op, req, cfg, calls, resp>>

env == <<disks, attached, fsKind, mounted>>

-----------------------------------------------------------------------------
(* Workers, request names and option mappings the transport may deliver.   *)

Workers == {1, 2}

Root == "/mnt/"

ReadyStatus == "READY"

Statuses == {"READY", "PENDING"}

ReqNames == {"a", "b", ""}

NoRequest == [Name |-> "", Options |-> << >>]

KnownKeys == {"Name", "Type", "SizeGb", "SourceSnapshot", "SourceImage"}

EmptyOptions == << >>

OptionSets ==
    { EmptyOptions,
      "SizeGb" :> "10",
      "SizeGb" :> "1x",
      "Name" :> "b",
      "Name" :> "",
      "Foo" :> "1",
      ("Type" :> "pd-ssd") @@ ("SourceImage" :> "img"),
      "SourceSnapshot" :> "snap",
      ("SizeGb" :> "1x") @@ ("Foo" :> "1") }

\* Every option mapping with the volume name "a", and every volume name
\* without options or with the Name option.
Requests ==
    [Name : {"a"}, Options : OptionSets]
        \cup [Name : ReqNames, Options : {EmptyOptions, "Name" :> "b"}]

\* The orders in which a range over the map m may visit its keys.
Orders(m) ==
    { s \in [1..Cardinality(DOMAIN m) -> DOMAIN m] :
        \A i, j \in DOMAIN s : i # j => s[i] # s[j] }

-----------------------------------------------------------------------------
(* strconv.ParseInt(value, 10, 64) on the option values of the model.      *)

\* The characters of the option values that reach ParseInt.
Chars(s) ==
    CASE s = "10" -> <<"1", "0">>
      [] s = "1x" -> <<"1", "x">>
      [] s = "1"  -> <<"1">>
      [] s = ""   -> << >>
      [] OTHER    -> <<"?">>

Digits == {"0", "1", "2", "3", "4", "5", "6", "7", "8", "9"}

DigitVal(c) ==
    CASE c = "0" -> 0 [] c = "1" -> 1 [] c = "2" -> 2 [] c = "3" -> 3
      [] c = "4" -> 4 [] c = "5" -> 5 [] c = "6" -> 6 [] c = "7" -> 7
      [] c = "8" -> 8 [] c = "9" -> 9


\* ParseDigits reading the digits in base 16.
RECURSIVE ParseDigitsBase16(_, _)
ParseDigitsBase16(cs, acc) ==
    IF cs = << >> THEN acc
    ELSE ParseDigitsBase16(Tail(cs), acc * 16 + DigitVal(Head(cs)))

RECURSIVE ParseDigits(_, _)
ParseDigits(cs, acc) ==
    IF cs = << >> THEN acc
    ELSE ParseDigits(Tail(cs), acc * 10 + DigitVal(Head(cs)))

ParseInt(s) ==
    LET cs == Chars(s)
        body == IF cs # << >> /\ Head(cs) \in {"+", "-"} THEN Tail(cs) ELSE cs
        neg == cs # << >> /\ Head(cs) = "-"
    IN  IF body = << >> \/ \E i \in DOMAIN body : body[i] \notin Digits
        THEN [val |-> 0,
              err |-> "strconv.ParseInt: parsing \"" \o s \o "\": invalid syntax"]
        ELSE [val |-> IF neg THEN 0 - ParseDigits(body, 0) ELSE ParseDigits(body, 0),
              err |-> ""]

-----------------------------------------------------------------------------
(* providers.DiskConfig                                                    *)

DiskConfig(name) ==
    [Name |-> name, Type |-> "", SizeGb |-> 0, SourceSnapshot |-> "", SourceImage |-> ""]

Validate(c) == IF c.Name = "" THEN "disk name is required" ELSE ""

Dev(c) == "/dev/disk/by-id/google-" \o c.Name

MountPoint(c, root) == root \o c.Name

NoCfg == [called |-> FALSE, config |-> DiskConfig(""), err |-> ""]

\* ApplyOptions without the default branch: unknown keys are skipped.
RECURSIVE ApplyOptionsSkipsUnknown(_, _, _)
ApplyOptionsSkipsUnknown(config, options, keys) ==
    IF keys = << >> THEN [config |-> config, err |-> ""]
    ELSE LET key == Head(keys)
             value == options[key]
         IN  CASE key = "Name" ->
                    ApplyOptionsSkipsUnknown([config EXCEPT !.Name = value], options, Tail(keys))
               [] key = "Type" ->
                    ApplyOptionsSkipsUnknown([config EXCEPT !.Type = value], options, Tail(keys))
               [] key = "SizeGb" ->
                    LET n == ParseInt(value)
                    IN  IF n.err # "" THEN [config |-> config, err |-> n.err]
                        ELSE ApplyOptionsSkipsUnknown([config EXCEPT !.SizeGb = n.val],
                                                      options, Tail(keys))
               [] key = "SourceSnapshot" ->
                    ApplyOptionsSkipsUnknown([config EXCEPT !.SourceSnapshot = value],
                                             options, Tail(keys))
               [] key = "SourceImage" ->
                    ApplyOptionsSkipsUnknown([config EXCEPT !.SourceImage = value],
                                             options, Tail(keys))
               [] OTHER ->
                    ApplyOptionsSkipsUnknown(config, options, Tail(keys))

\* The body of the range loop of createDiskConfig, for the keys still to visit.
RECURSIVE ApplyOptions(_, _, _)
ApplyOptions(config, options, keys) ==
    IF keys = << >> THEN [config |-> config, err |-> ""]
    ELSE LET key == Head(keys)
             value == options[key]
         IN  CASE key = "Name" ->
                    ApplyOptions([config EXCEPT !.Name = value], options, Tail(keys))
               [] key = "Type" ->
                    ApplyOptions([config EXCEPT !.Type = value], options, Tail(keys))
               [] key = "SizeGb" ->
                    LET n == ParseInt(value)
                    IN  IF n.err # "" THEN [config |-> config, err |-> n.err]
                        ELSE ApplyOptions([config EXCEPT !.SizeGb = n.val], options, Tail(keys))
               [] key = "SourceSnapshot" ->
                    ApplyOptions([config EXCEPT !.SourceSnapshot = value], options, Tail(keys))
               [] key = "SourceImage" ->
                    ApplyOptions([config EXCEPT !.SourceImage = value], options, Tail(keys))
               [] OTHER ->
                    [config |-> config, err |-> "unknown option \"" \o key \o "\""]


\* createDiskConfig returning the config without config.Validate().
createDiskConfigNoValidate(r, keys) ==
    LET looped == ApplyOptions(DiskConfig(r.Name), r.Options, keys)
    IN  [called |-> TRUE, config |-> looped.config, err |-> looped.err]

createDiskConfig(r, keys) ==
    LET looped == ApplyOptions(DiskConfig(r.Name), r.Options, keys)
    IN  IF looped.err # ""
        THEN [called |-> TRUE, config |-> looped.config, err |-> looped.err]
        ELSE [called |-> TRUE, config |-> looped.config, err |-> Validate(looped.config)]


-----------------------------------------------------------------------------
(* volume.Response and the record of one external call.                    *)

EmptyResponse ==
    [Err |-> "", Mountpoint |-> "", Volume |-> << >>, Volumes |-> << >>,
     Capabilities |-> [Scope |-> ""]]

buildReponseError(err) == [EmptyResponse EXCEPT !.Err = err]

DirMode == 493  \* 0755

\* One call to a collaborator: the function, its arguments and the error it
\* returned ("" = nil).  res is what Stat found, ret the disks List returned.
Call(fn, config, dev, path, mode, res, ret, err) ==
    [fn |-> fn, config |-> config, dev |-> dev, path |-> path, mode |-> mode,
     res |-> res, ret |-> ret, err |-> err]

ProviderCall(fn, config, err) == Call(fn, config, "", "", 0, "", << >>, err)

ListResult(ds, err) == Call("List", DiskConfig(""), "", "", 0, "", ds, err)

FsCall(fn, dev, path, err) == Call(fn, DiskConfig(""), dev, path, 0, "", << >>, err)

StatResult(path, kind, err) == Call("Stat", DiskConfig(""), "", path, 0, kind, << >>, err)

MkdirAllResult(path, mode, err) ==
    Call("MkdirAll", DiskConfig(""), "", path, mode, "", << >>, err)

-----------------------------------------------------------------------------
(* The collaborators' state.                                               *)

ConfigNames ==
    (ReqNames \cup { o["Name"] : o \in { m \in OptionSets : "Name" \in DOMAIN m } })
        \ {""}

Paths == { MountPoint(DiskConfig(n), Root) : n \in ConfigNames }

Kinds == {"absent", "dir", "file", "denied"}

DiskNames(ds) == { ds[i].Name : i \in DOMAIN ds }

DevPresent(dev) == \E n \in attached : Dev(DiskConfig(n)) = dev

RECURSIVE RemoveDisk(_, _)
RemoveDisk(ds, name) ==
    IF ds = << >> THEN << >>
    ELSE IF Head(ds).Name = name THEN RemoveDisk(Tail(ds), name)
    ELSE <<Head(ds)>> \o RemoveDisk(Tail(ds), name)

Init ==
    /\ disks = << >>
    /\ attached = {}
    /\ fsKind \in [Paths -> Kinds]
    /\ mounted = [p \in Paths |-> ""]
    /\ pc = [w \in Workers |-> "idle"]
    /\ op = [w \in Workers |-> ""]
    /\ req = [w \in Workers |-> NoRequest]
    /\ cfg = [w \in Workers |-> NoCfg]
    /\ calls = [w \in Workers |-> << >>]
    /\ resp = [w \in Workers |-> EmptyResponse]

-----------------------------------------------------------------------------
(* Steps shared by the handlers.                                           *)

Free(w) == pc[w] \in {"idle", "done"}

\* The handler returns response r.
Return(w, r) ==
    /\ pc' = [pc EXCEPT ![w] = "done"]
    /\ resp' = [resp EXCEPT ![w] = r]

\* The handler goes on to its next call.
Goto(w, label) ==
    /\ pc' = [pc EXCEPT ![w] = label]
    /\ UNCHANGED resp

Issue(w, c) == calls' = [calls EXCEPT ![w] = Append(@, c)]

\* A request arrives: the handler is entered and runs createDiskConfig; an
\* error returns at once, otherwise the handler goes on to call `first`.
Enter(w, o, first, rs) ==
    /\ Free(w)
    /\ \E r \in rs : \E keys \in Orders(r.Options) :
         LET c == createDiskConfig(r, keys)
         IN  /\ op' = [op EXCEPT ![w] = o]
             /\ req' = [req EXCEPT ![w] = r]
             /\ cfg' = [cfg EXCEPT ![w] = c]
             /\ calls' = [calls EXCEPT ![w] = << >>]
             /\ pc' = [pc EXCEPT ![w] = IF c.err # "" THEN "done" ELSE first]
             /\ resp' = [resp EXCEPT ![w] =
                            IF c.err # "" THEN buildReponseError(c.err)
                            ELSE EmptyResponse]
    /\ UNCHANGED env

-----------------------------------------------------------------------------
(* Create                                                                  *)

Create(w) == Enter(w, "Create", "p.Create", Requests)

\* v.p.Create(config): the provider starts creating the new disk, or fails.
CreateCall(w) ==
    /\ pc[w] = "p.Create"
    /\ LET c == cfg[w].config
       IN  \/ /\ c.Name \notin DiskNames(disks)
              /\ disks' = Append(disks, [Name |-> c.Name, Status |-> "PENDING"])
              /\ Issue(w, ProviderCall("Create", c, ""))
              /\ Return(w, EmptyResponse)
           \/ /\ UNCHANGED disks
              /\ Issue(w, ProviderCall("Create", c, "create failed"))
              /\ Return(w, buildReponseError("create failed"))
    /\ UNCHANGED <<attached, fsKind, mounted, op, req, cfg>>

-----------------------------------------------------------------------------
(* List                                                                    *)

\* ListVolumes without the status check.
RECURSIVE ListVolumesAnyStatus(_)
ListVolumesAnyStatus(ds) ==
    IF ds = << >> THEN << >>
    ELSE <<[Name |-> Head(ds).Name, Mountpoint |-> ""]>> \o ListVolumesAnyStatus(Tail(ds))

\* The loop of List over the disks the provider returned.
RECURSIVE ListVolumes(_)
ListVolumes(ds) ==
    IF ds = << >> THEN << >>
    ELSE IF Head(ds).Status # "READY" THEN ListVolumes(Tail(ds))
    ELSE <<[Name |-> Head(ds).Name, Mountpoint |-> ""]>> \o ListVolumes(Tail(ds))

\* List and Get take no step before provider.List.
EnterList(w, o, r) ==
    /\ Free(w)
    /\ req' = [req EXCEPT ![w] = r]
    /\ op' = [op EXCEPT ![w] = o]
    /\ cfg' = [cfg EXCEPT ![w] = NoCfg]
    /\ calls' = [calls EXCEPT ![w] = << >>]
    /\ pc' = [pc EXCEPT ![w] = "p.List"]
    /\ resp' = [resp EXCEPT ![w] = EmptyResponse]
    /\ UNCHANGED env

\* List does not look at its request.
List(w) == EnterList(w, "List", NoRequest)

ListCall(w) ==
    /\ pc[w] = "p.List"
    /\ op[w] = "List"
    /\ \/ /\ Issue(w, ListResult(disks, ""))
          /\ Return(w, [EmptyResponse EXCEPT !.Volumes = ListVolumes(disks)])
       \/ /\ Issue(w, ListResult(<< >>, "list failed"))
          /\ Return(w, buildReponseError("list failed"))
    /\ UNCHANGED <<env, op, req, cfg>>

-----------------------------------------------------------------------------
(* Capabilities does not look at its request.                              *)

Capabilities(w) ==
    /\ Free(w)
    /\ req' = [req EXCEPT ![w] = NoRequest]
    /\ op' = [op EXCEPT ![w] = "Capabilities"]
    /\ cfg' = [cfg EXCEPT ![w] = NoCfg]
    /\ calls' = [calls EXCEPT ![w] = << >>]
    /\ Return(w, [EmptyResponse EXCEPT !.Capabilities = [Scope |-> "local"]])
    /\ UNCHANGED env

-----------------------------------------------------------------------------
(* Get                                                                     *)

\* GetLoop deriving the config before it compares the names.
RECURSIVE GetLoopDerivesFirst(_, _, _, _, _)
GetLoopDerivesFirst(ds, r, keys, response, derived) ==
    IF ds = << >> THEN [resp |-> response, cfg |-> derived]
    ELSE LET d == Head(ds)
             c == createDiskConfig(r, keys)
         IN  IF c.err # "" THEN [resp |-> buildReponseError(c.err), cfg |-> c]
             ELSE IF d.Name # r.Name
             THEN GetLoopDerivesFirst(Tail(ds), r, keys, response, c)
             ELSE GetLoopDerivesFirst(Tail(ds), r, keys,
                                      [response EXCEPT !.Volume =
                                          <<[Name |-> d.Name,
                                             Mountpoint |-> MountPoint(c.config, Root)]>>],
                                      c)

\* The loop of Get over the disks the provider returned: the response built
\* so far and the result of the last createDiskConfig.
RECURSIVE GetLoop(_, _, _, _, _)
GetLoop(ds, r, keys, response, derived) ==
    IF ds = << >> THEN [resp |-> response, cfg |-> derived]
    ELSE LET d == Head(ds)
         IN  IF d.Name # r.Name THEN GetLoop(Tail(ds), r, keys, response, derived)
             ELSE LET c == createDiskConfig(r, keys)
                  IN  IF c.err # ""
                      THEN [resp |-> buildReponseError(c.err), cfg |-> c]
                      ELSE GetLoop(Tail(ds), r, keys,
                                   [response EXCEPT !.Volume =
                                       <<[Name |-> d.Name,
                                          Mountpoint |-> MountPoint(c.config, Root)]>>],
                                   c)

Get(w) == \E r \in Requests : EnterList(w, "Get", r)

GetCall(w) ==
    /\ pc[w] = "p.List"
    /\ op[w] = "Get"
    /\ \/ \E keys \in Orders(req[w].Options) :
            LET out == GetLoop(disks, req[w], keys, EmptyResponse, NoCfg)
            IN  /\ Issue(w, ListResult(disks, ""))
                /\ cfg' = [cfg EXCEPT ![w] = out.cfg]
                /\ Return(w, out.resp)
       \/ /\ Issue(w, ListResult(<< >>, "list failed"))
          /\ UNCHANGED cfg
          /\ Return(w, buildReponseError("list failed"))
    /\ UNCHANGED <<env, op, req>>

-----------------------------------------------------------------------------
(* Remove                                                                  *)

Remove(w) == Enter(w, "Remove", "p.Delete", Requests)


\* RemoveCall refusing, without a call, to delete a disk that is mounted.
RemoveCallRefusesMounted(w) ==
    /\ pc[w] = "p.Delete"
    /\ LET c == cfg[w].config
       IN  IF mounted[MountPoint(c, Root)] # ""
           THEN /\ UNCHANGED <<disks, calls>>
                /\ Return(w, buildReponseError("volume is mounted"))
           ELSE \/ /\ c.Name \in DiskNames(disks)
                   /\ c.Name \notin attached
                   /\ disks' = RemoveDisk(disks, c.Name)
                   /\ Issue(w, ProviderCall("Delete", c, ""))
                   /\ Return(w, EmptyResponse)
                \/ /\ UNCHANGED disks
                   /\ Issue(w, ProviderCall("Delete", c, "delete failed"))
                   /\ Return(w, buildReponseError("delete failed"))
    /\ UNCHANGED <<attached, fsKind, mounted, op, req, cfg>>

\* v.p.Delete(config): the provider deletes a disk that is not in use, or fails.
RemoveCall(w) ==
    /\ pc[w] = "p.Delete"
    /\ LET c == cfg[w].config
       IN  \/ /\ c.Name \in DiskNames(disks)
              /\ c.Name \notin attached
              /\ disks' = RemoveDisk(disks, c.Name)
              /\ Issue(w, ProviderCall("Delete", c, ""))
              /\ Return(w, EmptyResponse)
           \/ /\ UNCHANGED disks
              /\ Issue(w, ProviderCall("Delete", c, "delete failed"))
              /\ Return(w, buildReponseError("delete failed"))
    /\ UNCHANGED <<attached, fsKind, mounted, op, req, cfg>>

-----------------------------------------------------------------------------
(* createMountPoint, called by Path and Mount                              *)

ConflictError(target) == "error the mountpoint \"" \o target \o "\" already exists"

\* createMountPoint returned nil: Path returns the mount point, Mount goes on
\* to attach the disk.
MountPointReady(w) ==
    IF op[w] = "Path"
    THEN Return(w, [EmptyResponse EXCEPT !.Mountpoint = MountPoint(cfg[w].config, Root)])
    ELSE Goto(w, "p.Attach")

\* StatCall taking whatever exists at the target for a conflict.
StatCallExistingIsConflict(w) ==
    /\ pc[w] = "fs.Stat"
    /\ LET target == MountPoint(cfg[w].config, Root)
           kind == fsKind[target]
       IN  CASE kind = "absent" ->
                  /\ Issue(w, StatResult(target, kind, ""))
                  /\ Goto(w, "fs.MkdirAll")
             [] kind = "denied" ->
                  /\ Issue(w, StatResult(target, kind, "permission denied"))
                  /\ Return(w, buildReponseError("permission denied"))
             [] kind \in {"file", "dir"} ->
                  /\ Issue(w, StatResult(target, kind, ""))
                  /\ Return(w, buildReponseError(ConflictError(target)))
    /\ UNCHANGED <<env, op, req, cfg>>

\* StatCall without the fi.IsDir() check.
StatCallNoDirCheck(w) ==
    /\ pc[w] = "fs.Stat"
    /\ LET target == MountPoint(cfg[w].config, Root)
           kind == fsKind[target]
       IN  CASE kind = "absent" ->
                  /\ Issue(w, StatResult(target, kind, ""))
                  /\ Goto(w, "fs.MkdirAll")
             [] kind = "denied" ->
                  /\ Issue(w, StatResult(target, kind, "permission denied"))
                  /\ Return(w, buildReponseError("permission denied"))
             [] kind \in {"file", "dir"} ->
                  /\ Issue(w, StatResult(target, kind, ""))
                  /\ MountPointReady(w)
    /\ UNCHANGED <<env, op, req, cfg>>

\* v.fs.Stat(target) and the branches on its result.
StatCall(w) ==
    /\ pc[w] = "fs.Stat"
    /\ LET target == MountPoint(cfg[w].config, Root)
           kind == fsKind[target]
       IN  CASE kind = "absent" ->
                  /\ Issue(w, StatResult(target, kind, ""))
                  /\ Goto(w, "fs.MkdirAll")
             [] kind = "denied" ->
                  /\ Issue(w, StatResult(target, kind, "permission denied"))
                  /\ Return(w, buildReponseError("permission denied"))
             [] kind = "file" ->
                  /\ Issue(w, StatResult(target, kind, ""))
                  /\ Return(w, buildReponseError(ConflictError(target)))
             [] kind = "dir" ->
                  /\ Issue(w, StatResult(target, kind, ""))
                  /\ MountPointReady(w)
    /\ UNCHANGED <<env, op, req, cfg>>


\* MkdirAllCall with the error of v.fs.MkdirAll dropped.
MkdirAllCallIgnoresError(w) ==
    /\ pc[w] = "fs.MkdirAll"
    /\ LET target == MountPoint(cfg[w].config, Root)
       IN  \/ /\ fsKind[target] \in {"absent", "dir"}
              /\ fsKind' = [fsKind EXCEPT ![target] = "dir"]
              /\ Issue(w, MkdirAllResult(target, DirMode, ""))
              /\ MountPointReady(w)
           \/ /\ UNCHANGED fsKind
              /\ Issue(w, MkdirAllResult(target, DirMode, "mkdir failed"))
              /\ MountPointReady(w)
    /\ UNCHANGED <<disks, attached, mounted, op, req, cfg>>

\* v.fs.MkdirAll(target, 0755): creates the directory unless something that is
\* not a directory is in the way, or fails.
MkdirAllCall(w) ==
    /\ pc[w] = "fs.MkdirAll"
    /\ LET target == MountPoint(cfg[w].config, Root)
       IN  \/ /\ fsKind[target] \in {"absent", "dir"}
              /\ fsKind' = [fsKind EXCEPT ![target] = "dir"]
              /\ Issue(w, MkdirAllResult(target, DirMode, ""))
              /\ MountPointReady(w)
           \/ /\ UNCHANGED fsKind
              /\ Issue(w, MkdirAllResult(target, DirMode, "mkdir failed"))
              /\ Return(w, buildReponseError("mkdir failed"))
    /\ UNCHANGED <<disks, attached, mounted, op, req, cfg>>

-----------------------------------------------------------------------------
(* Path                                                                    *)

Path(w) == Enter(w, "Path", "fs.Stat", Requests)

-----------------------------------------------------------------------------
(* Mount                                                                   *)

Mount(w) == Enter(w, "Mount", "fs.Stat", Requests)


\* AttachCall going straight to v.fs.Mount when the mount point is in use.
AttachCallSkipsFormatWhenMounted(w) ==
    /\ pc[w] = "p.Attach"
    /\ LET c == cfg[w].config
       IN  \/ /\ c.Name \in DiskNames(disks)
              /\ attached' = attached \cup {c.Name}
              /\ Issue(w, ProviderCall("Attach", c, ""))
              /\ Goto(w, IF mounted[MountPoint(c, Root)] # "" THEN "fs.Mount" ELSE "fs.Format")
           \/ /\ UNCHANGED attached
              /\ Issue(w, ProviderCall("Attach", c, "disk busy"))
              /\ Return(w, buildReponseError("disk busy"))
    /\ UNCHANGED <<disks, fsKind, mounted, op, req, cfg>>

\* AttachCall with the error of v.p.Attach dropped.
AttachCallIgnoresError(w) ==
    /\ pc[w] = "p.Attach"
    /\ LET c == cfg[w].config
       IN  \/ /\ c.Name \in DiskNames(disks)
              /\ attached' = attached \cup {c.Name}
              /\ Issue(w, ProviderCall("Attach", c, ""))
              /\ Goto(w, "fs.Format")
           \/ /\ UNCHANGED attached
              /\ Issue(w, ProviderCall("Attach", c, "disk busy"))
              /\ Goto(w, "fs.Format")
    /\ UNCHANGED <<disks, fsKind, mounted, op, req, cfg>>

\* v.p.Attach(config): the provider attaches an existing disk, or fails.
AttachCall(w) ==
    /\ pc[w] = "p.Attach"
    /\ LET c == cfg[w].config
       IN  \/ /\ c.Name \in DiskNames(disks)
              /\ attached' = attached \cup {c.Name}
              /\ Issue(w, ProviderCall("Attach", c, ""))
              /\ Goto(w, "fs.Format")
           \/ /\ UNCHANGED attached
              /\ Issue(w, ProviderCall("Attach", c, "disk busy"))
              /\ Return(w, buildReponseError("disk busy"))
    /\ UNCHANGED <<disks, fsKind, mounted, op, req, cfg>>


\* FormatCall detaching the disk again when v.fs.Format fails.
FormatCallDetachesOnFailure(w) ==
    /\ pc[w] = "fs.Format"
    /\ LET dev == Dev(cfg[w].config)
       IN  \/ /\ DevPresent(dev)
              /\ Issue(w, FsCall("Format", dev, "", ""))
              /\ Goto(w, "fs.Mount")
              /\ UNCHANGED attached
           \/ /\ calls' = [calls EXCEPT ![w] =
                              @ \o <<FsCall("Format", dev, "", "format failed"),
                                     ProviderCall("Detach", cfg[w].config, "")>>]
              /\ attached' = attached \ {cfg[w].config.Name}
              /\ Return(w, buildReponseError("format failed"))
    /\ UNCHANGED <<disks, fsKind, mounted, op, req, cfg>>

\* v.fs.Format(config.Dev()): formats the device if it is present, or fails.
FormatCall(w) ==
    /\ pc[w] = "fs.Format"
    /\ LET dev == Dev(cfg[w].config)
       IN  \/ /\ DevPresent(dev)
              /\ Issue(w, FsCall("Format", dev, "", ""))
              /\ Goto(w, "fs.Mount")
           \/ /\ Issue(w, FsCall("Format", dev, "", "format failed"))
              /\ Return(w, buildReponseError("format failed"))
    /\ UNCHANGED <<env, op, req, cfg>>

\* MountCall returning the mount point together with the error of v.fs.Mount.
MountCallKeepsMountpoint(w) ==
    /\ pc[w] = "fs.Mount"
    /\ LET dev == Dev(cfg[w].config)
           target == MountPoint(cfg[w].config, Root)
       IN  \/ /\ DevPresent(dev)
              /\ fsKind[target] = "dir"
              /\ mounted' = [mounted EXCEPT ![target] = dev]
              /\ Issue(w, FsCall("Mount", dev, target, ""))
              /\ Return(w, [EmptyResponse EXCEPT !.Mountpoint = target])
           \/ /\ UNCHANGED mounted
              /\ Issue(w, FsCall("Mount", dev, target, "mount failed"))
              /\ Return(w, [Err |-> "mount failed", Mountpoint |-> target,
                            Volume |-> << >>, Volumes |-> << >>,
                            Capabilities |-> [Scope |-> ""]])
    /\ UNCHANGED <<disks, attached, fsKind, op, req, cfg>>

\* v.fs.Mount(config.Dev(), config.MountPoint(v.Root)): mounts a present
\* device on an existing directory, or fails.
MountCall(w) ==
    /\ pc[w] = "fs.Mount"
    /\ LET dev == Dev(cfg[w].config)
           target == MountPoint(cfg[w].config, Root)
       IN  \/ /\ DevPresent(dev)
              /\ fsKind[target] = "dir"
              /\ mounted' = [mounted EXCEPT ![target] = dev]
              /\ Issue(w, FsCall("Mount", dev, target, ""))
              /\ Return(w, [EmptyResponse EXCEPT !.Mountpoint = target])
           \/ /\ UNCHANGED mounted
              /\ Issue(w, FsCall("Mount", dev, target, "mount failed"))
              /\ Return(w, buildReponseError("mount failed"))
    /\ UNCHANGED <<disks, attached, fsKind, op, req, cfg>>

-----------------------------------------------------------------------------
(* Unmount                                                                 *)

Unmount(w) == Enter(w, "Unmount", "fs.Unmount", Requests)

\* UnmountCall computing the mount point from the request's name.
UnmountCallByRequestName(w) ==
    /\ pc[w] = "fs.Unmount"
    /\ LET target == MountPoint(DiskConfig(req[w].Name), Root)
       IN  \/ /\ mounted' = [p \in Paths |-> IF p = target THEN "" ELSE mounted[p]]
              /\ Issue(w, FsCall("Unmount", "", target, ""))
              /\ Goto(w, "p.Detach")
           \/ /\ UNCHANGED mounted
              /\ Issue(w, FsCall("Unmount", "", target, "unmount failed"))
              /\ Return(w, buildReponseError("unmount failed"))
    /\ UNCHANGED <<disks, attached, fsKind, op, req, cfg>>

\* UnmountCall with the error of v.fs.Unmount dropped.
UnmountCallIgnoresError(w) ==
    /\ pc[w] = "fs.Unmount"
    /\ LET target == MountPoint(cfg[w].config, Root)
       IN  \/ /\ mounted' = [mounted EXCEPT ![target] = ""]
              /\ Issue(w, FsCall("Unmount", "", target, ""))
              /\ Goto(w, "p.Detach")
           \/ /\ UNCHANGED mounted
              /\ Issue(w, FsCall("Unmount", "", target, "unmount failed"))
              /\ Goto(w, "p.Detach")
    /\ UNCHANGED <<disks, attached, fsKind, op, req, cfg>>

\* v.fs.Unmount(config.MountPoint(v.Root)): nothing is mounted on the path
\* afterwards, or fails.
UnmountCall(w) ==
    /\ pc[w] = "fs.Unmount"
    /\ LET target == MountPoint(cfg[w].config, Root)
       IN  \/ /\ mounted' = [mounted EXCEPT ![target] = ""]
              /\ Issue(w, FsCall("Unmount", "", target, ""))
              /\ Goto(w, "p.Detach")
           \/ /\ UNCHANGED mounted
              /\ Issue(w, FsCall("Unmount", "", target, "unmount failed"))
              /\ Return(w, buildReponseError("unmount failed"))
    /\ UNCHANGED <<disks, attached, fsKind, op, req, cfg>>


\* DetachCall detaching the disk of the request's name.
DetachCallByRequestName(w) ==
    /\ pc[w] = "p.Detach"
    /\ LET c == DiskConfig(req[w].Name)
       IN  \/ /\ attached' = attached \ {c.Name}
              /\ Issue(w, ProviderCall("Detach", c, ""))
              /\ Return(w, EmptyResponse)
           \/ /\ UNCHANGED attached
              /\ Issue(w, ProviderCall("Detach", c, "detach failed"))
              /\ Return(w, buildReponseError("detach failed"))
    /\ UNCHANGED <<disks, fsKind, mounted, op, req, cfg>>

\* v.p.Detach(config): the disk is not attached afterwards, or fails.
DetachCall(w) ==
    /\ pc[w] = "p.Detach"
    /\ LET c == cfg[w].config
       IN  \/ /\ attached' = attached \ {c.Name}
              /\ Issue(w, ProviderCall("Detach", c, ""))
              /\ Return(w, EmptyResponse)
           \/ /\ UNCHANGED attached
              /\ Issue(w, ProviderCall("Detach", c, "detach failed"))
              /\ Return(w, buildReponseError("detach failed"))
    /\ UNCHANGED <<disks, fsKind, mounted, op, req, cfg>>

-----------------------------------------------------------------------------
(* The provider finishes creating a disk.                                  *)

DiskBecomesReady ==
    /\ \E i \in DOMAIN disks :
         /\ disks[i].Status # "READY"
         /\ disks' = [disks EXCEPT ![i].Status = "READY"]
    /\ UNCHANGED <<attached, fsKind, mounted, pc, op, req, cfg, calls, resp>>

-----------------------------------------------------------------------------
(* Spec: the transport delivers one request at a time, on worker 1.        *)

Handle(w) ==
    \/ Create(w) \/ CreateCall(w)
    \/ List(w) \/ ListCall(w)
    \/ Capabilities(w)
    \/ Get(w) \/ GetCall(w)
    \/ Remove(w) \/ RemoveCall(w)
    \/ Path(w)
    \/ Mount(w)
    \/ StatCall(w) \/ MkdirAllCall(w)
    \/ AttachCall(w) \/ FormatCall(w) \/ MountCall(w)
    \/ Unmount(w) \/ UnmountCall(w) \/ DetachCall(w)

Next == Handle(1) \/ DiskBecomesReady

Spec == Init /\ [][Next]_vars

-----------------------------------------------------------------------------
(* SpecTwo: the driver starts on a host whose disks were created earlier   *)
(* and handles two requests one after the other, the first on worker 1 and *)
(* the second on worker 2, each one of Get, Path, Mount and Unmount.       *)

\* The requests whose options are empty or override the name, and derive.
PairRequests ==
    { r \in Requests :
        /\ r.Options \in {EmptyOptions, "Name" :> "b"}
        /\ \A keys \in Orders(r.Options) : createDiskConfig(r, keys).err = "" }

InitTwo ==
    /\ disks = <<[Name |-> "a", Status |-> "READY"], [Name |-> "b", Status |-> "READY"]>>
    /\ attached = {}
    /\ fsKind \in [Paths -> Kinds]
    /\ mounted = [p \in Paths |-> ""]
    /\ pc = [w \in Workers |-> "idle"]
    /\ op = [w \in Workers |-> ""]
    /\ req = [w \in Workers |-> NoRequest]
    /\ cfg = [w \in Workers |-> NoCfg]
    /\ calls = [w \in Workers |-> << >>]
    /\ resp = [w \in Workers |-> EmptyResponse]

\* Worker 1 takes the first request, worker 2 the second when the first is done.
Turn(w) ==
    /\ pc[w] = "idle"
    /\ \A v \in Workers : v < w => pc[v] = "done"
    /\ \A v \in Workers : v > w => pc[v] = "idle"

GetInTurn(w) == Turn(w) /\ \E r \in PairRequests : EnterList(w, "Get", r)

PathInTurn(w) == Turn(w) /\ Enter(w, "Path", "fs.Stat", PairRequests)

MountInTurn(w) == Turn(w) /\ Enter(w, "Mount", "fs.Stat", PairRequests)

UnmountInTurn(w) == Turn(w) /\ Enter(w, "Unmount", "fs.Unmount", PairRequests)

NextTwo ==
    \E w \in Workers :
        \/ GetInTurn(w) \/ GetCall(w)
        \/ PathInTurn(w)
        \/ MountInTurn(w)
        \/ StatCall(w) \/ MkdirAllCall(w)
        \/ AttachCall(w) \/ FormatCall(w) \/ MountCall(w)
        \/ UnmountInTurn(w) \/ UnmountCall(w) \/ DetachCall(w)

SpecTwo == InitTwo /\ [][NextTwo]_vars

-----------------------------------------------------------------------------
(* SpecConcurrent: the transport dispatches two requests, each a Mount or  *)
(* an Unmount, on a goroutine of its own; the handlers hold no lock, so    *)
(* their calls to the provider and the filesystem interleave freely.  The  *)
(* host was used before: each volume is new, has its directory, is         *)
(* attached, or is attached and mounted.                                   *)

VolumeStates == {"new", "dir", "attached", "mounted"}

\* The name of the volume whose mount point is p.
VolumeOf(p) == CHOOSE n \in ConfigNames : MountPoint(DiskConfig(n), Root) = p

InitConcurrent ==
    \E s \in [ConfigNames -> VolumeStates] :
        /\ disks = <<[Name |-> "a", Status |-> "READY"], [Name |-> "b", Status |-> "READY"]>>
        /\ attached = { n \in ConfigNames : s[n] \in {"attached", "mounted"} }
        /\ fsKind = [p \in Paths |-> IF s[VolumeOf(p)] = "new" THEN "absent" ELSE "dir"]
        /\ mounted = [p \in Paths |->
                         IF s[VolumeOf(p)] = "mounted" THEN Dev(DiskConfig(VolumeOf(p))) ELSE ""]
        /\ pc = [w \in Workers |-> "idle"]
        /\ op = [w \in Workers |-> ""]
        /\ req = [w \in Workers |-> NoRequest]
        /\ cfg = [w \in Workers |-> NoCfg]
        /\ calls = [w \in Workers |-> << >>]
        /\ resp = [w \in Workers |-> EmptyResponse]

MountOnce(w) == pc[w] = "idle" /\ Enter(w, "Mount", "fs.Stat", PairRequests)

UnmountOnce(w) == pc[w] = "idle" /\ Enter(w, "Unmount", "fs.Unmount", PairRequests)

NextConcurrent ==
    \E w \in Workers :
        \/ MountOnce(w)
        \/ StatCall(w) \/ MkdirAllCall(w)
        \/ AttachCall(w) \/ FormatCall(w) \/ MountCall(w)
        \/ UnmountOnce(w) \/ UnmountCall(w) \/ DetachCall(w)

SpecConcurrent == InitConcurrent /\ [][NextConcurrent]_vars

-----------------------------------------------------------------------------
(* Vocabulary of the properties.                                           *)

Done(w) == pc[w] = "done"

\* The names of the functions a handler has called, in call order.
Fns(w) == [i \in DOMAIN calls[w] |-> calls[w][i].fn]

IsPrefix(s, t) == Len(s) <= Len(t) /\ \A i \in DOMAIN s : s[i] = t[i]

Called(w, fn) == \E i \in DOMAIN calls[w] : calls[w][i].fn = fn

ProviderFns == {"Create", "List", "Attach", "Detach", "Delete"}

FilesystemFns == {"Stat", "MkdirAll", "Format", "Mount", "Unmount"}

NoPayload(r) ==
    /\ r.Mountpoint = ""
    /\ r.Volume = << >>
    /\ r.Volumes = << >>
    /\ r.Capabilities.Scope = ""

-----------------------------------------------------------------------------
\* C1: A Mount calls Stat (and MkdirAll when the path is absent), then
\* provider.Attach, then filesystem.Format, then filesystem.Mount, in this
\* order; when Attach fails it is the last call of the Mount (no Format, no
\* Mount) and the response's error is the text of the Attach error.
C1_MountOrder ==
    \A w \in Workers :
        op[w] = "Mount" =>
            /\ \/ IsPrefix(Fns(w), <<"Stat", "Attach", "Format", "Mount">>)
               \/ IsPrefix(Fns(w), <<"Stat", "MkdirAll", "Attach", "Format", "Mount">>)
            /\ \A i \in DOMAIN calls[w] :
                 (calls[w][i].fn = "Attach" /\ calls[w][i].err # "") =>
                    /\ i = Len(calls[w])
                    /\ ~Called(w, "Format")
                    /\ ~Called(w, "Mount")
                    /\ Done(w)
                    /\ resp[w].Err = calls[w][i].err

C1_Witness ==
    /\ op[1] = "Mount"
    /\ Done(1)
    /\ Fns(1) = <<"Stat", "MkdirAll", "Attach">>
    /\ calls[1][3].err = "disk busy"
    /\ resp[1].Err = "disk busy"

\* C2: An Unmount calls filesystem.Unmount on the mount path and then
\* provider.Detach; when filesystem.Unmount fails Detach is not called, and
\* when it succeeds the Unmount does not return before Detach is called.
C2_UnmountOrder ==
    \A w \in Workers :
        op[w] = "Unmount" =>
            /\ IsPrefix(Fns(w), <<"Unmount", "Detach">>)
            /\ \A i \in DOMAIN calls[w] :
                 calls[w][i].fn = "Unmount" =>
                    /\ calls[w][i].path = MountPoint(cfg[w].config, Root)
                    /\ calls[w][i].err # "" => (Done(w) /\ ~Called(w, "Detach"))
                    /\ (calls[w][i].err = "" /\ Done(w)) => Called(w, "Detach")

C2_Witness ==
    /\ op[1] = "Unmount"
    /\ Done(1)
    /\ Fns(1) = <<"Unmount">>
    /\ calls[1][1].err # ""
    /\ resp[1].Err = calls[1][1].err

-----------------------------------------------------------------------------
\* An optionally signed, non-empty run of decimal digits.
IsBase10Integer(s) ==
    LET cs == Chars(s)
        ds == IF cs # << >> /\ Head(cs) \in {"+", "-"} THEN Tail(cs) ELSE cs
    IN  ds # << >> /\ \A i \in DOMAIN ds : ds[i] \in Digits

\* The options hold an unknown key or a SizeGb that is no base-10 integer.
BadOptions(o) ==
    \E k \in DOMAIN o : k \notin KnownKeys \/ (k = "SizeGb" /\ ~IsBase10Integer(o[k]))

DerivingOps == {"Create", "Get", "Remove", "Path", "Mount", "Unmount"}

\* C3 as claimed: in Create, Get, Remove, Path, Mount and Unmount a request
\* with bad options issues no call at all and returns an error.
C3_AsClaimed ==
    \A w \in Workers :
        (op[w] \in DerivingOps /\ BadOptions(req[w].Options)) =>
            /\ calls[w] = << >>
            /\ Done(w) => resp[w].Err # ""

\* C3: In Create, Remove, Path, Mount and Unmount a request with bad options
\* returns an error and issues no call to the provider or the filesystem.  Get
\* calls provider.List first and nothing else; with bad options it returns an
\* error exactly when List succeeds and reports a disk with the requested
\* name, or List itself fails.
C3_ConfigErrorBeforeCalls ==
    \A w \in Workers :
        BadOptions(req[w].Options) =>
            /\ op[w] \in (DerivingOps \ {"Get"}) =>
                 /\ calls[w] = << >>
                 /\ Done(w)
                 /\ resp[w].Err # ""
                 /\ NoPayload(resp[w])
            /\ op[w] = "Get" =>
                 /\ IsPrefix(Fns(w), <<"List">>)
                 /\ Done(w) =>
                      (resp[w].Err # "" <=>
                          \/ calls[w][1].err # ""
                          \/ req[w].Name \in DiskNames(calls[w][1].ret))

C3_Witness ==
    /\ op[1] = "Mount"
    /\ Done(1)
    /\ "Foo" \in DOMAIN req[1].Options
    /\ calls[1] = << >>
    /\ resp[1].Err = "unknown option \"Foo\""

-----------------------------------------------------------------------------
\* The error with which the step of call c failed, "" if it did not: the
\* error the collaborator returned, or createMountPoint's conflict error when
\* Stat found something that is not a directory.
StepError(c) ==
    IF c.fn = "Stat" /\ c.err = "" /\ c.res = "file" THEN ConflictError(c.path) ELSE c.err

CallErrors(w) ==
    LET failed == SelectSeq(calls[w], LAMBDA c : StepError(c) # "")
    IN  [i \in DOMAIN failed |-> StepError(failed[i])]

ConfigErrors(w) == IF cfg[w].called /\ cfg[w].err # "" THEN <<cfg[w].err>> ELSE << >>

\* The errors of the steps of the handler, in the order of its steps: Get
\* derives the config after provider.List, the others before any call.
Failures(w) ==
    IF op[w] = "Get" THEN CallErrors(w) \o ConfigErrors(w)
    ELSE ConfigErrors(w) \o CallErrors(w)

\* C4: Every finished operation has returned a response; when a step failed
\* its error field is the text of the first failure, which is not empty, and
\* no payload field (mount path, volume, volume list, capabilities) is set;
\* when no step failed the error field is empty.
C4_UniformResponse ==
    \A w \in Workers :
        Done(w) =>
            IF Failures(w) # << >>
            THEN /\ resp[w].Err = Head(Failures(w))
                 /\ resp[w].Err # ""
                 /\ NoPayload(resp[w])
            ELSE resp[w].Err = ""

C4_Witness ==
    /\ op[1] = "Mount"
    /\ Done(1)
    /\ Fns(1) = <<"Stat", "Attach", "Format", "Mount">>
    /\ calls[1][4].err = "mount failed"
    /\ resp[1] = [Err |-> "mount failed", Mountpoint |-> "", Volume |-> << >>,
                  Volumes |-> << >>, Capabilities |-> [Scope |-> ""]]

-----------------------------------------------------------------------------
\* The names of the ready disks of ds, in the order of ds.
ReadyNames(ds) ==
    LET ready == SelectSeq(ds, LAMBDA d : d.Status = ReadyStatus)
    IN  [i \in DOMAIN ready |-> ready[i].Name]

VolumeNames(vs) == [i \in DOMAIN vs |-> vs[i].Name]

\* C5: A finished List whose provider.List succeeded returns, without error,
\* exactly the names of the disks that call reported with the ready status,
\* in the provider's order; when provider.List failed it returns that error
\* and no volumes.
C5_ListReady ==
    \A w \in Workers :
        (op[w] = "List" /\ Done(w)) =>
            /\ Fns(w) = <<"List">>
            /\ IF calls[w][1].err = ""
               THEN /\ resp[w].Err = ""
                    /\ VolumeNames(resp[w].Volumes) = ReadyNames(calls[w][1].ret)
               ELSE /\ resp[w].Err = calls[w][1].err
                    /\ resp[w].Volumes = << >>

C5_Witness ==
    /\ op[1] = "List"
    /\ Done(1)
    /\ calls[1][1].ret = <<[Name |-> "a", Status |-> "READY"],
                           [Name |-> "b", Status |-> "PENDING"]>>
    /\ VolumeNames(resp[1].Volumes) = <<"a">>

\* The volumes a response carries.
Surfaced(r) == { r.Volume[i] : i \in DOMAIN r.Volume } \cup { r.Volumes[i] : i \in DOMAIN r.Volumes }

\* C6: Neither List nor Get returns a volume for a disk that provider.List
\* reported in a status other than the ready status.
C6_OnlyReadySurfaced ==
    \A w \in Workers :
        (op[w] \in {"List", "Get"} /\ Done(w)) =>
            \A v \in Surfaced(resp[w]) :
                \A i \in DOMAIN calls[w][1].ret :
                    calls[w][1].ret[i].Name = v.Name =>
                        calls[w][1].ret[i].Status = ReadyStatus

\* C7: A finished Get whose provider.List succeeded without reporting a disk
\* of the requested name returns no error and no volume, whatever its options.
C7_GetNoMatch ==
    \A w \in Workers :
        ( /\ op[w] = "Get"
          /\ Done(w)
          /\ calls[w][1].err = ""
          /\ req[w].Name \notin DiskNames(calls[w][1].ret) ) =>
            /\ resp[w].Err = ""
            /\ resp[w].Volume = << >>
            /\ NoPayload(resp[w])

C7_Witness ==
    /\ op[1] = "Get"
    /\ Done(1)
    /\ calls[1][1].err = ""
    /\ calls[1][1].ret # << >>
    /\ req[1].Name \notin DiskNames(calls[1][1].ret)
    /\ BadOptions(req[1].Options)
    /\ resp[1] = EmptyResponse

-----------------------------------------------------------------------------
\* C8: A Path calls nothing but Stat and MkdirAll; when Stat finds something
\* that is not a directory at the mount path, the Path makes no further call
\* (no MkdirAll), returns the conflict error and no mount path, and the path
\* is still not a directory.
C8_PathConflict ==
    \A w \in Workers :
        op[w] = "Path" =>
            /\ \A i \in DOMAIN calls[w] : calls[w][i].fn \notin ProviderFns
            /\ \A i \in DOMAIN calls[w] :
                 (calls[w][i].fn = "Stat" /\ calls[w][i].err = "" /\ calls[w][i].res = "file") =>
                    /\ Done(w)
                    /\ Fns(w) = <<"Stat">>
                    /\ resp[w].Err = ConflictError(MountPoint(cfg[w].config, Root))
                    /\ resp[w].Mountpoint = ""
                    /\ fsKind[calls[w][i].path] = "file"

C8_Witness ==
    /\ op[1] = "Path"
    /\ Done(1)
    /\ Fns(1) = <<"Stat">>
    /\ calls[1][1].res = "file"
    /\ resp[1].Err = "error the mountpoint \"/mnt/a\" already exists"
    /\ fsKind["/mnt/a"] = "file"

-----------------------------------------------------------------------------
\* The second request repeats the first Path: createMountPoint runs twice in
\* a row on the same config.
EnsuredTwice ==
    /\ op[1] = "Path"
    /\ op[2] = "Path"
    /\ req[2] = req[1]
    /\ Done(1)

\* C9 as claimed: createMountPoint run twice in a row on the same config
\* succeeds both times, the second run calls no MkdirAll and a directory is
\* at the mount path.
C9_AsClaimed ==
    (EnsuredTwice /\ Done(2)) =>
        /\ resp[1].Err = ""
        /\ resp[2].Err = ""
        /\ ~Called(2, "MkdirAll")
        /\ fsKind[MountPoint(cfg[2].config, Root)] = "dir"

C9_SecondRunResult ==
    (EnsuredTwice /\ resp[1].Err = "") =>
        /\ ~Called(2, "MkdirAll")
        /\ fsKind[MountPoint(cfg[2].config, Root)] = "dir"
        /\ Done(2) => (resp[2].Err = "" /\ resp[2].Mountpoint = resp[1].Mountpoint)

C9_SecondRunStep ==
    (EnsuredTwice /\ resp[1].Err = "" /\ pc'[2] # pc[2]) =>
        (fsKind' = fsKind /\ mounted' = mounted)

\* C9: When createMountPoint is run twice in a row on the same config with no
\* change to the filesystem in between and the first run succeeds, the second
\* run succeeds too, calls no MkdirAll and changes nothing in the filesystem,
\* and the mount path is a directory.
C9_EnsureIdempotent == []C9_SecondRunResult /\ [][C9_SecondRunStep]_vars

C9_Witness ==
    /\ EnsuredTwice
    /\ Done(2)
    /\ Fns(1) = <<"Stat", "MkdirAll">>
    /\ resp[1].Err = ""
    /\ Fns(2) = <<"Stat">>
    /\ resp[2] = resp[1]
    /\ fsKind[resp[2].Mountpoint] = "dir"

-----------------------------------------------------------------------------
PathOps == {"Get", "Path", "Mount", "Unmount"}

\* The mount paths an operation has returned or passed to the filesystem.
PathsUsed(w) ==
    ( { resp[w].Mountpoint }
        \cup { resp[w].Volume[i].Mountpoint : i \in DOMAIN resp[w].Volume }
        \cup { calls[w][i].path : i \in DOMAIN calls[w] } ) \ {""}

\* The device paths an operation has passed to the filesystem.
DevsUsed(w) == { calls[w][i].dev : i \in DOMAIN calls[w] } \ {""}

\* Both operations derived a config, and for the same disk name.
SameVolume(v, w) ==
    /\ cfg[v].called /\ cfg[v].err = ""
    /\ cfg[w].called /\ cfg[w].err = ""
    /\ cfg[v].config.Name = cfg[w].config.Name

\* C10: Any two of Get, Path, Mount and Unmount handling the same request, or
\* requests that derive the same disk name, use one and the same mount path
\* (returned by Get, Path and Mount, passed to filesystem.Mount and
\* filesystem.Unmount) and one and the same device path.
C10_PathsAgree ==
    \A v, w \in Workers :
        ( /\ op[v] \in PathOps
          /\ op[w] \in PathOps
          /\ (req[v] = req[w] \/ SameVolume(v, w)) ) =>
            /\ Cardinality(PathsUsed(v) \cup PathsUsed(w)) <= 1
            /\ Cardinality(DevsUsed(v) \cup DevsUsed(w)) <= 1

C10_Witness ==
    /\ op[1] = "Mount"
    /\ Done(1)
    /\ req[1] = [Name |-> "a", Options |-> "Name" :> "b"]
    /\ resp[1].Mountpoint = "/mnt/b"
    /\ Fns(1) = <<"Stat", "Attach", "Format", "Mount">>
    /\ calls[1][4].path = "/mnt/b"
    /\ calls[1][4].dev = "/dev/disk/by-id/google-b"
    /\ op[2] = "Unmount"
    /\ Done(2)
    /\ req[2] = [Name |-> "b", Options |-> EmptyOptions]
    /\ calls[2][1].path = "/mnt/b"

-----------------------------------------------------------------------------
\* The disk name a request asks for: its Name option, else its name.
RequestedName(r) == IF "Name" \in DOMAIN r.Options THEN r.Options["Name"] ELSE r.Name

ConfigFns == {"Create", "Delete", "Attach", "Detach"}

\* C11: A config that createDiskConfig returned without error has a non-empty
\* Name, which is the Name option when there is one and the request's name
\* otherwise; no call to the provider carries a config with an empty Name and
\* no call to the filesystem a path or device built from an empty name.
C11_NameNonEmpty ==
    \A w \in Workers :
        /\ (cfg[w].called /\ cfg[w].err = "") =>
              /\ cfg[w].config.Name # ""
              /\ cfg[w].config.Name = RequestedName(req[w])
        /\ \A i \in DOMAIN calls[w] :
              LET c == calls[w][i]
              IN  /\ c.fn \in ConfigFns => c.config.Name # ""
                  /\ c.fn \in FilesystemFns =>
                        /\ c.path # "" => c.path # MountPoint(DiskConfig(""), Root)
                        /\ c.dev # "" => c.dev # Dev(DiskConfig(""))

C11_Witness ==
    /\ op[1] = "Create"
    /\ Done(1)
    /\ req[1] = [Name |-> "a", Options |-> "Name" :> ""]
    /\ cfg[1].called
    /\ cfg[1].err # ""
    /\ calls[1] = << >>
    /\ resp[1].Err = cfg[1].err

-----------------------------------------------------------------------------
\* The integer a SizeGb value of the model spells.
SpelledInteger(s) == CASE s = "10" -> 10 [] s = "1" -> 1

\* The config a request without bad options asks for.
RequestedConfig(r) ==
    [Name |-> RequestedName(r),
     Type |-> IF "Type" \in DOMAIN r.Options THEN r.Options["Type"] ELSE "",
     SizeGb |-> IF "SizeGb" \in DOMAIN r.Options
                THEN SpelledInteger(r.Options["SizeGb"]) ELSE 0,
     SourceSnapshot |-> IF "SourceSnapshot" \in DOMAIN r.Options
                        THEN r.Options["SourceSnapshot"] ELSE "",
     SourceImage |-> IF "SourceImage" \in DOMAIN r.Options
                     THEN r.Options["SourceImage"] ELSE ""]

\* C13: A Create whose config derives issues one call, provider.Create with
\* the config the request asks for (SizeGb the integer its option spells), and
\* never provider.List or a filesystem call; it returns an empty error exactly
\* when provider.Create returns none.
C13_CreateOneCall ==
    \A w \in Workers :
        (op[w] = "Create" /\ cfg[w].err = "") =>
            /\ IsPrefix(Fns(w), <<"Create">>)
            /\ Done(w) =>
                 /\ Fns(w) = <<"Create">>
                 /\ calls[w][1].config = RequestedConfig(req[w])
                 /\ resp[w].Err = calls[w][1].err
                 /\ NoPayload(resp[w])

C13_Witness ==
    /\ op[1] = "Create"
    /\ Done(1)
    /\ req[1] = [Name |-> "a", Options |-> "SizeGb" :> "10"]
    /\ Fns(1) = <<"Create">>
    /\ calls[1][1].config =
          [Name |-> "a", Type |-> "", SizeGb |-> 10, SourceSnapshot |-> "", SourceImage |-> ""]
    /\ calls[1][1].err = ""
    /\ resp[1] = EmptyResponse

-----------------------------------------------------------------------------
\* Worker w takes a step of its handler.
Steps(w) == <<pc[w], op[w], req[w], calls[w]>>' # <<pc[w], op[w], req[w], calls[w]>>

\* Worker w has made a call to fn that returned no error (Failed: an error).
Succeeded(w, fn) == \E i \in DOMAIN calls[w] : calls[w][i].fn = fn /\ calls[w][i].err = ""

Failed(w, fn) == \E i \in DOMAIN calls[w] : calls[w][i].fn = fn /\ calls[w][i].err # ""

C14_Aborts ==
    \A w \in Workers :
        /\ \A i \in DOMAIN calls[w] :
             StepError(calls[w][i]) # "" =>
                (i = Len(calls[w]) /\ Done(w) /\ resp[w].Err = StepError(calls[w][i]))
        /\ op[w] = "Mount" => (~Called(w, "Detach") /\ ~Called(w, "Unmount"))
        /\ op[w] = "Unmount" => \A i \in DOMAIN calls[w] : calls[w][i].fn \in {"Unmount", "Detach"}
        /\ (op[w] = "Mount" /\ Succeeded(w, "Attach") /\ (Failed(w, "Format") \/ Failed(w, "Mount"))) =>
              cfg[w].config.Name \in attached
        /\ (op[w] = "Unmount" /\ Succeeded(w, "Unmount") /\ Failed(w, "Detach")) =>
              mounted[MountPoint(cfg[w].config, Root)] = ""

C14_FailingStep ==
    \A w \in Workers :
        (Steps(w) /\ pc[w] \in {"fs.Format", "fs.Mount", "p.Detach"} /\ resp'[w].Err # "") =>
            (attached' = attached /\ mounted' = mounted /\ fsKind' = fsKind)

-----------------------------------------------------------------------------
\* The indexes of the calls of worker w to fn.
CallsTo(w, fn) == { i \in DOMAIN calls[w] : calls[w][i].fn = fn }

\* C15: A Mount calls filesystem.Format at most once; once its Attach has
\* succeeded the next call is Format on the config's device, so a Mount that
\* has left the Format step has called it exactly once, before any
\* filesystem.Mount -- also when the volume is mounted already.
C15_FormatAlways ==
    \A w \in Workers :
        op[w] = "Mount" =>
            /\ Cardinality(CallsTo(w, "Format")) <= 1
            /\ \A i \in CallsTo(w, "Attach") :
                 (calls[w][i].err = "" /\ pc[w] # "fs.Format") =>
                    /\ i + 1 \in CallsTo(w, "Format")
                    /\ calls[w][i + 1].dev = Dev(cfg[w].config)
            /\ \A j \in CallsTo(w, "Mount") :
                 \E i \in CallsTo(w, "Format") : i < j /\ calls[w][i].err = ""

C15_Witness ==
    /\ op[1] = "Mount"
    /\ Done(1)
    /\ Fns(1) = <<"Stat", "Attach", "Format", "Mount">>
    /\ calls[1][3].dev = "/dev/disk/by-id/google-a"
    /\ calls[1][4].err # ""
    /\ mounted["/mnt/a"] = "/dev/disk/by-id/google-a"

-----------------------------------------------------------------------------
EnsureOps == {"Path", "Mount"}

\* The createMountPoint of worker w has returned an error.
EnsureFailed(w) ==
    \E i \in DOMAIN calls[w] :
        calls[w][i].fn \in {"Stat", "MkdirAll"} /\ StepError(calls[w][i]) # ""

\* C16: createMountPoint calls Stat on the mount point first.  Path absent:
\* the next call is MkdirAll of that path with mode 0755, whose error, if any,
\* is returned.  Something that is not a directory: the conflict error is
\* returned and MkdirAll is not called.  Any other Stat error: it is returned
\* and MkdirAll is not called.  A Mount whose createMountPoint failed calls
\* neither Attach, Format nor filesystem.Mount.
C16_EnsureOutcomes ==
    \A w \in Workers :
        (op[w] \in EnsureOps /\ calls[w] # << >>) =>
            LET st == calls[w][1]
                target == MountPoint(cfg[w].config, Root)
            IN  /\ st.fn = "Stat"
                /\ st.path = target
                /\ CallsTo(w, "Stat") = {1}
                /\ CallsTo(w, "MkdirAll") \subseteq {2}
                /\ (st.err = "" /\ st.res = "absent") =>
                      \/ pc[w] = "fs.MkdirAll" /\ Len(calls[w]) = 1
                      \/ /\ Len(calls[w]) >= 2
                         /\ calls[w][2].fn = "MkdirAll"
                         /\ calls[w][2].path = target
                         /\ calls[w][2].mode = 493
                         /\ calls[w][2].err # "" =>
                              (Done(w) /\ Len(calls[w]) = 2 /\ resp[w].Err = calls[w][2].err)
                         /\ (calls[w][2].err = "" /\ op[w] = "Path") =>
                              (Done(w) /\ resp[w].Err = "" /\ resp[w].Mountpoint = target)
                /\ (st.err = "" /\ st.res = "file") =>
                      (Done(w) /\ Len(calls[w]) = 1 /\ resp[w].Err = ConflictError(target))
                /\ st.err # "" =>
                      (Done(w) /\ Len(calls[w]) = 1 /\ resp[w].Err = st.err)
                /\ (st.err = "" /\ st.res = "dir") => ~Called(w, "MkdirAll")
                /\ EnsureFailed(w) =>
                      (~Called(w, "Attach") /\ ~Called(w, "Format") /\ ~Called(w, "Mount"))

C16_Witness ==
    /\ op[1] = "Mount"
    /\ Done(1)
    /\ Fns(1) = <<"Stat", "MkdirAll">>
    /\ calls[1][1].res = "absent"
    /\ calls[1][2].mode = 493
    /\ calls[1][2].err = "mkdir failed"
    /\ resp[1].Err = "mkdir failed"

-----------------------------------------------------------------------------
C17_OneDelete ==
    \A w \in Workers :
        (op[w] = "Remove" /\ cfg[w].err = "") =>
            /\ IsPrefix(Fns(w), <<"Delete">>)
            /\ Done(w) =>
                 /\ Fns(w) = <<"Delete">>
                 /\ calls[w][1].config = RequestedConfig(req[w])
                 /\ resp[w].Err = calls[w][1].err

C17_RemoveStep ==
    \A w \in Workers :
        (Steps(w) /\ op'[w] = "Remove") =>
            (attached' = attached /\ mounted' = mounted /\ fsKind' = fsKind)

\* C17: A Remove whose config derives issues one call, provider.Delete with
\* the derived config, whether or not the volume is mounted or attached, and
\* no step of a Remove changes what is attached, what is mounted or the
\* mount-point directories.
C17_RemoveNoCheck == []C17_OneDelete /\ [][C17_RemoveStep]_vars

C17_Witness ==
    /\ op[1] = "Remove"
    /\ Done(1)
    /\ Fns(1) = <<"Delete">>
    /\ cfg[1].config.Name \in attached
    /\ mounted[MountPoint(cfg[1].config, Root)] = Dev(cfg[1].config)
    /\ fsKind[MountPoint(cfg[1].config, Root)] = "dir"

-----------------------------------------------------------------------------
\* C19: A Get whose provider.List reports the disk its request asks for (the
\* disk a Create with the same request creates) returns a volume, whose Name
\* is that disk and whose mount point is the mount point of that Name.
C19_GetSameDisk ==
    \A w \in Workers :
        ( /\ op[w] = "Get"
          /\ Done(w)
          /\ ~BadOptions(req[w].Options)
          /\ RequestedName(req[w]) # ""
          /\ calls[w][1].err = ""
          /\ RequestedName(req[w]) \in DiskNames(calls[w][1].ret) ) =>
            /\ resp[w].Volume # << >>
            /\ resp[w].Volume[1].Name = RequestedName(req[w])
            /\ resp[w].Volume[1].Mountpoint = MountPoint(DiskConfig(resp[w].Volume[1].Name), Root)

-----------------------------------------------------------------------------
\* What is known of the volume called n.
VolumeState(n) ==
    [attached |-> n \in attached,
     mounted |-> mounted[MountPoint(DiskConfig(n), Root)],
     dir |-> fsKind[MountPoint(DiskConfig(n), Root)]]

\* The last call of worker w, among the calls to fns, that returned no error.
LastOk(w, fns) ==
    LET ok == { i \in DOMAIN calls[w] : calls[w][i].fn \in fns /\ calls[w][i].err = "" }
    IN  IF ok = {} THEN ""
        ELSE calls[w][CHOOSE i \in ok : \A j \in ok : j <= i].fn

\* No other operation is on the disk name of the operation of worker w.
Alone(w) == \A v \in Workers \ {w} : cfg[v].config.Name # cfg[w].config.Name

C12_OwnCalls ==
    \A w \in Workers : \A i \in DOMAIN calls[w] :
        LET c == calls[w][i]
        IN  /\ c.fn \in ProviderFns => c.config.Name = cfg[w].config.Name
            /\ c.fn \in FilesystemFns =>
                 /\ c.dev \in {"", Dev(cfg[w].config)}
                 /\ c.path \in {"", MountPoint(cfg[w].config, Root)}

\* The volume of an operation that is alone on its name is in the state a
\* serial execution of the operation's calls so far leaves it in.
C12_AsSerial ==
    \A w \in Workers :
        (op[w] # "" /\ Alone(w)) =>
            LET c == cfg[w].config
                v == VolumeState(c.Name)
            IN  /\ LastOk(w, {"Attach", "Detach"}) = "Attach" => v.attached
                /\ LastOk(w, {"Attach", "Detach"}) = "Detach" => ~v.attached
                /\ LastOk(w, {"Mount", "Unmount"}) = "Mount" => v.mounted = Dev(c)
                /\ LastOk(w, {"Mount", "Unmount"}) = "Unmount" => v.mounted = ""
                /\ LastOk(w, {"MkdirAll"}) = "MkdirAll" => v.dir = "dir"

C12_Frame ==
    \A w \in Workers :
        Steps(w) =>
            /\ disks' = disks
            /\ \A n \in ConfigNames \ {cfg'[w].config.Name} : VolumeState(n)' = VolumeState(n)
            /\ resp'[w].Err # "" => \A n \in ConfigNames : VolumeState(n)' = VolumeState(n)

\* C12: Under every interleaving of two Mount or Unmount operations, the
\* calls of an operation name only its own disk, device path and mount path;
\* a step of an operation leaves the attachment, the mount and the directory
\* of every volume of another name as they were (and a failing step leaves all
\* of them as they were); and while the derived disk names of the operations
\* differ, each volume is in the state the successful calls of its own
\* operation leave it in, as in a serial execution.
C12_Independent == []C12_OwnCalls /\ []C12_AsSerial /\ [][C12_Frame]_vars

C12_Witness ==
    /\ op[1] = "Mount"
    /\ cfg[1].config.Name = "a"
    /\ pc[1] = "fs.Mount"
    /\ Fns(1) = <<"Stat", "MkdirAll", "Attach", "Format">>
    /\ op[2] = "Unmount"
    /\ req[2] = [Name |-> "a", Options |-> "Name" :> "b"]
    /\ pc[2] = "p.Detach"
    /\ VolumeState("a") = [attached |-> TRUE, mounted |-> "", dir |-> "dir"]
    /\ VolumeState("b") = [attached |-> TRUE, mounted |-> "", dir |-> "dir"]

-----------------------------------------------------------------------------
NoCallFailed == \A w \in Workers : \A i \in DOMAIN calls[w] : calls[w][i].err = ""

\* C18: Under every interleaving of a Mount and an Unmount whose calls all
\* succeed, a mount point that is mounted has its disk attached.
C18_MountedIsAttached ==
    NoCallFailed =>
        \A n \in ConfigNames : VolumeState(n).mounted # "" => VolumeState(n).attached
====
